---- MODULE Spec2Model ----
(***************************************************************************)
(* Model of src/backend/win_cid/file_dialog/dialog_ffi.rs: the IDialog     *)
(* wrapper around the Windows IFileDialog COM object.                      *)
(*                                                                         *)
(* One behaviour is one dialog invocation: a build_* operation constructs  *)
(* and configures the dialog, the caller shows it, extracts the result and *)
(* lets the wrapper go out of scope.  Every native call is appended to the *)
(* log `calls` with the status the OS answered; the OS answers are chosen  *)
(* nondeterministically.  The model is of the build with the "parent"      *)
(* feature enabled (without it the parent is always None, which is one of  *)
(* the inputs here).                                                       *)
(*                                                                         *)
(* Strings are sequences of numbers: a Rust String is its sequence of      *)
(* Unicode scalar values, a wide string (Vec<u16>, LPWSTR, OsString on     *)
(* Windows) its sequence of UTF-16 code units.                             *)
(***************************************************************************)
EXTENDS Integers, Sequences, FiniteSets, TLC

VARIABLES kind,    \* which build_* operation the invocation runs
          opt,     \* the FileDialog configuration (read-only input)
          ip,      \* index of the next step of the invocation
          phase,   \* "run" | "drop" | "done" | "panic"
          dialog,  \* the native dialog object and the wrapper that owns it
          calls,   \* log of native calls, in order
          res,     \* OS-owned resources acquired besides the dialog
          rets,    \* log of the operations' return values, in order
          sel      \* what the user selected in the dialog (the OS's result items)

vars == <<kind, opt, ip, phase, dialog, calls, res, rets, sel>>

(***************************** bounds **************************************)
MaxFilters == 2
MaxExts == 2
MaxItems == 2

(***************************** values **************************************)
\* HRESULT is a signed 32-bit status: S_OK, E_FAIL, HRESULT_FROM_WIN32(ERROR_CANCELLED).
HResults == {0, -2147467259}
ShowHResults == HResults \cup {-2147023673}

\* ToResult::check (utils.rs): Ok for a status that SUCCEEDED (>= 0), Err(status) otherwise.
check(hr) == hr >= 0

Ok(v) == [ok |-> TRUE, val |-> v]
Err(hr) == [ok |-> FALSE, val |-> hr]

None == [some |-> FALSE]
Some(v) == [some |-> TRUE, v |-> v]

\* One native call: the function, the object it is called on, its argument,
\* the status it returned (0 for the functions that return no status) and the
\* IDialog operation that made it.
Call(f, obj, arg, hr, op) == [f |-> f, obj |-> obj, arg |-> arg, hr |-> hr, op |-> op]

\* One acquired OS resource: an interface pointer or a CoTaskMem buffer.
Resource(type, op) == [type |-> type, op |-> op, freed |-> 0]

(*************************** string marshaling *****************************)
\* str::encode_utf16 / OsStr::encode_wide of a str: one unit per scalar value of
\* the BMP, a surrogate pair for the others.
RECURSIVE encode_utf16(_)
encode_utf16(s) ==
    IF s = <<>> THEN <<>>
    ELSE LET c == Head(s) IN
         (IF c < 65536 THEN <<c>>
          ELSE <<55296 + ((c - 65536) \div 1024), 56320 + ((c - 65536) % 1024)>>)
         \o encode_utf16(Tail(s))

\* `.chain(once(0)).collect()`: the NUL-terminated wide string handed to the OS.
wide(s) == encode_utf16(s) \o <<0>>

IsHigh(u) == u >= 55296 /\ u <= 56319
IsLow(u) == u >= 56320 /\ u <= 57343

\* Path::to_str: the path as a str when its units are well-formed UTF-16,
\* None when it holds an unpaired surrogate.
RECURSIVE to_str(_)
to_str(p) ==
    IF p = <<>> THEN Some(<<>>)
    ELSE IF IsHigh(p[1]) /\ Len(p) >= 2 /\ IsLow(p[2])
         THEN LET r == to_str(SubSeq(p, 3, Len(p))) IN
              IF r.some
              THEN Some(<<65536 + (p[1] - 55296) * 1024 + (p[2] - 56320)>> \o r.v)
              ELSE None
    ELSE IF IsHigh(p[1]) \/ IsLow(p[1]) THEN None
    ELSE LET r == to_str(Tail(p)) IN
         IF r.some THEN Some(<<p[1]>> \o r.v) ELSE None

\* to_os_string: the units of the buffer before its first NUL. (The code
\* reads until it meets a NUL; every buffer of the model holds one, as the OS
\* guarantees for GetDisplayName.)
RECURSIVE to_os_string(_)
to_os_string(s) ==
    IF s = <<>> \/ Head(s) = 0 THEN <<>>
    ELSE <<Head(s)>> \o to_os_string(Tail(s))

\* ext_string with the separator written after every extension instead of
\* between them; C6_Amended tells the two apart.
RECURSIVE ext_string_trailing(_)
ext_string_trailing(exts) ==
    IF exts = <<>> THEN <<>>
    ELSE <<42, 46>> \o Head(exts) \o <<59>> \o ext_string_trailing(Tail(exts))

\* `.map(|item| format!("*.{}", item)).collect::<Vec<_>>().join(";")`
RECURSIVE ext_string(_)
ext_string(exts) ==
    IF exts = <<>> THEN <<>>
    ELSE <<42, 46>> \o Head(exts)
         \o (IF Tail(exts) = <<>> THEN <<>> ELSE <<59>> \o ext_string(Tail(exts)))

\* The COMDLG_FILTERSPEC array built from the filters.
filter_spec(filters) ==
    [i \in 1..Len(filters) |->
        [pszName |-> wide(filters[i].name),
         pszSpec |-> wide(ext_string(filters[i].extensions))]]

(***************************** inputs **************************************)
Kinds == {"build_pick_file", "build_save_file", "build_pick_files", "build_pick_folder"}

\* Extensions "a" and "bc", one filter name "I".
ExtPool == {<<97>>, <<98, 99>>}
FilterNames == {<<73>>}
ExtLists == UNION {[1..k -> ExtPool] : k \in 0..MaxExts}
Filter == [name : FilterNames, extensions : ExtLists]
FilterLists == UNION {[1..k -> Filter] : k \in 0..MaxFilters}
SampleFilters ==
    {<<>>,
     <<[name |-> <<73>>, extensions |-> <<>>], [name |-> <<73>>, extensions |-> << <<97>> >>]>>,
     <<[name |-> <<73>>, extensions |-> << <<97>>, <<98, 99>> >>]>>}

\* Starting directories: none, "C", and a path holding an unpaired surrogate
\* (a legal Windows path that is not valid Unicode).
Directories == {None, Some(<<67>>), Some(<<67, 55296>>)}
FileNames == {None, Some(<<110>>)}
Titles == {None, Some(<<84>>)}
\* opt.parent: no parent, a RawWindowHandle::Windows, or another variant.
Parents == {"None", "Windows", "Other"}

\* The configurations explored: every filter list within the bounds with the
\* other fields absent, and a sample of filter lists with every combination
\* of the other fields.
Configs ==
    [filters : FilterLists, starting_directory : {None}, file_name : {None},
     title : {None}, parent : {"None"}]
    \cup
    [filters : SampleFilters, starting_directory : Directories, file_name : FileNames,
     title : Titles, parent : Parents]

\* Display-name buffers the OS returns: NUL-terminated, possibly with stale
\* memory after the terminator.
Buffers == {<<112, 0>>, <<113, 114, 0, 7>>}
Selections(k) ==
    IF k = "build_pick_files"
    THEN UNION {[1..n -> Buffers] : n \in 1..MaxItems}
    ELSE [1..1 -> Buffers]

(*************************** IDialog operations ****************************)
\* Each operation is computed from its inputs and the statuses the OS answers
\* and yields the native calls it made, the resources it acquired (with the
\* number of times it released each) and its return value.
Outcome(cs, rs, ret) == [calls |-> cs, res |-> rs, ret |-> ret]

\* add_filters taking the default extension from the first filter that has
\* one instead of from the first filter; C10_DefaultExtension tells the two apart.
add_filters_any_filter(filters, hrExt, hrTypes) ==
    LET op == "add_filters"
        have == {i \in DOMAIN filters : filters[i].extensions # <<>>}
        first == CHOOSE i \in have : \A j \in have : i <= j
        c1 == IF have # {}
              THEN <<Call("SetDefaultExtension", "dialog", wide(filters[first].extensions[1]), hrExt, op)>>
              ELSE <<>>
        spec == filter_spec(filters)
    IN  IF c1 # <<>> /\ ~check(hrExt) THEN Outcome(c1, <<>>, Err(hrExt))
        ELSE IF spec # <<>>
             THEN Outcome(c1 \o <<Call("SetFileTypes", "dialog", spec, hrTypes, op)>>, <<>>,
                          IF check(hrTypes) THEN Ok("unit") ELSE Err(hrTypes))
             ELSE Outcome(c1, <<>>, Ok("unit"))

add_filters(filters, hrExt, hrTypes) ==
    LET op == "add_filters"
        c1 == IF filters # <<>> /\ filters[1].extensions # <<>>
              THEN <<Call("SetDefaultExtension", "dialog", wide(filters[1].extensions[1]), hrExt, op)>>
              ELSE <<>>
        spec == filter_spec(filters)
    IN  IF c1 # <<>> /\ ~check(hrExt) THEN Outcome(c1, <<>>, Err(hrExt))
        ELSE IF spec # <<>>
             THEN Outcome(c1 \o <<Call("SetFileTypes", "dialog", spec, hrTypes, op)>>, <<>>,
                          IF check(hrTypes) THEN Ok("unit") ELSE Err(hrTypes))
             ELSE Outcome(c1, <<>>, Ok("unit"))

set_path(path, hrItem, hrFolder) ==
    LET op == "set_path" IN
    IF path.some /\ to_str(path.v).some
    THEN LET c1 == Call("SHCreateItemFromParsingName", "shell", wide(to_str(path.v).v), hrItem, op)
             c2 == Call("SetFolder", "dialog", "item", hrFolder, op)
         IN  IF ~check(hrItem) THEN Outcome(<<c1>>, <<>>, Err(hrItem))
             ELSE Outcome(<<c1, c2>>, <<Resource("IShellItem", op)>>,
                          IF check(hrFolder) THEN Ok("unit") ELSE Err(hrFolder))
    ELSE Outcome(<<>>, <<>>, Ok("unit"))

set_file_name(file_name, hr) ==
    IF file_name.some
    THEN Outcome(<<Call("SetFileName", "dialog", wide(file_name.v), hr, "set_file_name")>>, <<>>,
                 IF check(hr) THEN Ok("unit") ELSE Err(hr))
    ELSE Outcome(<<>>, <<>>, Ok("unit"))

set_title(title, hr) ==
    IF title.some
    THEN Outcome(<<Call("SetTitle", "dialog", wide(title.v), hr, "set_title")>>, <<>>,
                 IF check(hr) THEN Ok("unit") ELSE Err(hr))
    ELSE Outcome(<<>>, <<>>, Ok("unit"))

\* The `unsafe { dialog.SetOptions(FOS_...).check()?; }` block of build_pick_folder
\* and build_pick_files.
set_options(k, hr) ==
    Outcome(<<Call("SetOptions", "dialog",
                   IF k = "build_pick_folder" THEN "FOS_PICKFOLDERS" ELSE "FOS_ALLOWMULTISELECT",
                   hr, "SetOptions")>>, <<>>,
            IF check(hr) THEN Ok("unit") ELSE Err(hr))

\* show dropping the status of Show; C7_ShowOnce tells the two apart.
show_unchecked(parent, hr) ==
    Outcome(<<Call("Show", "dialog", IF parent.some THEN parent.v ELSE "null", hr, "show")>>, <<>>,
            Ok("unit"))

show(parent, hr) ==
    Outcome(<<Call("Show", "dialog", IF parent.some THEN parent.v ELSE "null", hr, "show")>>, <<>>,
            IF check(hr) THEN Ok("unit") ELSE Err(hr))

get_result(s, hrRes, hrName) ==
    LET op == "get_result"
        c1 == Call("GetResult", "dialog", "-", hrRes, op)
        c2 == Call("GetDisplayName", "item", "SIGDN_FILESYSPATH", hrName, op)
        c3 == Call("CoTaskMemFree", "name", "-", 0, op)
        item == Resource("IShellItem", op)
    IN  IF ~check(hrRes) THEN Outcome(<<c1>>, <<>>, Err(hrRes))
        ELSE IF ~check(hrName) THEN Outcome(<<c1, c2>>, <<item>>, Err(hrName))
        ELSE Outcome(<<c1, c2, c3>>,
                     <<item, [Resource("LPWSTR", op) EXCEPT !.freed = 1]>>,
                     Ok(to_os_string(s[1])))

\* The `for id in 0..count` loop of get_results from index id on. GetItemAt of
\* an index the array does not hold fails.
RECURSIVE get_items(_, _, _, _, _)
get_items(id, count, s, hrItem, hrName) ==
    LET op == "get_results"
        hrI == IF id < Len(s) THEN hrItem[id + 1] ELSE -2147467259
        c1 == Call("GetItemAt", "items", id, hrI, op)
        item == Resource("IShellItem", op)
    IN  IF id >= count THEN Outcome(<<>>, <<>>, Ok(<<>>))
        ELSE IF ~check(hrI) THEN Outcome(<<c1>>, <<>>, Err(hrI))
        ELSE LET c2 == Call("GetDisplayName", "item", "SIGDN_FILESYSPATH", hrName[id + 1], op)
                 c3 == Call("CoTaskMemFree", "name", "-", 0, op)
             IN  IF ~check(hrName[id + 1])
                 THEN Outcome(<<c1, c2>>, <<item>>, Err(hrName[id + 1]))
                 ELSE LET rest == get_items(id + 1, count, s, hrItem, hrName) IN
                      Outcome(<<c1, c2, c3>> \o rest.calls,
                              <<item, [Resource("LPWSTR", op) EXCEPT !.freed = 1]>> \o rest.res,
                              IF rest.ret.ok
                              THEN Ok(<<to_os_string(s[id + 1])>> \o rest.ret.val)
                              ELSE rest.ret)

\* countOut is what `count` holds after a GetCount that failed.
get_results(s, hrResults, hrCount, countOut, hrItem, hrName) ==
    LET op == "get_results"
        c1 == Call("GetResults", "dialog", "-", hrResults, op)
        c2 == Call("GetCount", "items", "-", hrCount, op)
        count == IF check(hrCount) THEN Len(s) ELSE countOut
        loop == get_items(0, count, s, hrItem, hrName)
        array == Resource("IShellItemArray", op)
    IN  IF ~check(hrResults) THEN Outcome(<<c1>>, <<>>, Err(hrResults))
        ELSE IF ~loop.ret.ok
             THEN Outcome(<<c1, c2>> \o loop.calls, <<array>> \o loop.res, loop.ret)
             ELSE Outcome(<<c1, c2>> \o loop.calls \o <<Call("Release", "items", "-", 0, op)>>,
                          <<[array EXCEPT !.freed = 1]>> \o loop.res,
                          loop.ret)

(***************************** invocation **********************************)
\* Steps with the title set before the starting directory; C5_FixedOrder
\* tells the two apart.
Steps_title_first(k) ==
    CASE k = "build_pick_file" ->
           <<"new_open_dialog", "add_filters", "set_title", "set_path", "set_file_name">>
      [] k = "build_save_file" ->
           <<"new_save_dialog", "add_filters", "set_title", "set_path", "set_file_name">>
      [] k = "build_pick_folder" ->
           <<"new_open_dialog", "set_title", "set_path", "SetOptions">>
      [] k = "build_pick_files" ->
           <<"new_open_dialog", "add_filters", "set_title", "set_path", "set_file_name",
             "SetOptions">>

\* Steps with build_pick_folder configured like build_pick_files (filters and
\* file name applied); C9_OwnModeOnly tells the two apart.
Steps_folder_as_files(k) ==
    CASE k = "build_pick_file" ->
           <<"new_open_dialog", "add_filters", "set_path", "set_file_name", "set_title">>
      [] k = "build_save_file" ->
           <<"new_save_dialog", "add_filters", "set_path", "set_file_name", "set_title">>
      [] OTHER ->
           <<"new_open_dialog", "add_filters", "set_path", "set_file_name", "set_title",
             "SetOptions">>

\* The steps of each build operation, in the order of its body.
Steps(k) ==
    CASE k = "build_pick_file" ->
           <<"new_open_dialog", "add_filters", "set_path", "set_file_name", "set_title">>
      [] k = "build_save_file" ->
           <<"new_save_dialog", "add_filters", "set_path", "set_file_name", "set_title">>
      [] k = "build_pick_folder" ->
           <<"new_open_dialog", "set_path", "set_title", "SetOptions">>
      [] k = "build_pick_files" ->
           <<"new_open_dialog", "add_filters", "set_path", "set_file_name", "set_title",
             "SetOptions">>

\* The caller of the wrapper (file_dialog.rs): build, show, extract, and the
\* wrapper is dropped when the caller's scope ends.
Invocation(k) ==
    Steps(k) \o <<"show", IF k = "build_pick_files" THEN "get_results" ELSE "get_result">>

Ret(op, r, from, to) == [op |-> op, ok |-> r.ok, val |-> r.val, from |-> from, to |-> to]

Init ==
    /\ kind \in Kinds
    /\ opt \in Configs
    /\ opt.filters \in SampleFilters \/ kind \in {"build_pick_file", "build_save_file"}
    /\ ip = 1
    /\ phase = "run"
    /\ dialog = [created |-> FALSE, owned |-> FALSE, parent |-> None, released |-> 0]
    /\ calls = <<>>
    /\ res = <<>>
    /\ rets = <<>>
    /\ sel = <<>>

At(step) == phase = "run" /\ Invocation(kind)[ip] = step

\* An operation on the dialog ran with outcome r. A failure inside the build
\* makes the build return it (`?`), a success of its last step makes it return
\* Ok(dialog); a failure, or the end of the invocation, ends the scope that
\* owns the wrapper.
Step(op, r) ==
    LET n == Len(calls) + Len(r.calls)
        own == <<Ret(op, r.ret, Len(calls) + 1, n)>>
        build == IF ip <= Len(Steps(kind)) /\ (~r.ret.ok \/ ip = Len(Steps(kind)))
                 THEN <<Ret(kind, IF r.ret.ok THEN Ok("dialog") ELSE r.ret, 1, n)>>
                 ELSE <<>>
    IN  /\ calls' = calls \o r.calls
        /\ res' = res \o r.res
        /\ rets' = rets \o own \o build
        /\ IF r.ret.ok /\ ip < Len(Invocation(kind))
           THEN ip' = ip + 1 /\ phase' = phase
           ELSE ip' = ip /\ phase' = "drop"
        /\ UNCHANGED <<kind, opt, dialog>>

\* The match on opt.parent of new_open_dialog / new_save_dialog.
resolve_parent(parent) ==
    CASE parent = "Windows" -> [panic |-> FALSE, parent |-> Some("hwnd")]
      [] parent = "None" -> [panic |-> FALSE, parent |-> None]
      [] OTHER -> [panic |-> TRUE, parent |-> None]

\* new_file_dialog, then new_open_dialog / new_save_dialog: CoCreateInstance,
\* the parent match (which panics on a handle that is not a Windows one, with
\* the new object still a raw pointer no wrapper owns), then Self(ptr, parent).
New ==
    /\ At("new_open_dialog") \/ At("new_save_dialog")
    /\ \E hr \in HResults :
         LET op == Invocation(kind)[ip]
             c == Call("CoCreateInstance", "class",
                       IF op = "new_save_dialog" THEN "CLSID_FileSaveDialog"
                       ELSE "CLSID_FileOpenDialog", hr, op)
             p == resolve_parent(opt.parent)
         IN  /\ calls' = Append(calls, c)
             /\ IF ~check(hr)
                THEN /\ rets' = rets \o <<Ret(op, Err(hr), 1, 1), Ret(kind, Err(hr), 1, 1)>>
                     /\ phase' = "done"
                     /\ UNCHANGED <<ip, dialog>>
                ELSE IF p.panic
                THEN /\ dialog' = [dialog EXCEPT !.created = TRUE]
                     /\ phase' = "panic"
                     /\ UNCHANGED <<ip, rets>>
                ELSE /\ dialog' = [dialog EXCEPT !.created = TRUE, !.owned = TRUE,
                                                 !.parent = p.parent]
                     /\ rets' = Append(rets, Ret(op, Ok("dialog"), 1, 1))
                     /\ ip' = ip + 1
                     /\ UNCHANGED phase
    /\ UNCHANGED <<kind, opt, res, sel>>

AddFilters ==
    /\ At("add_filters")
    /\ \E hrExt \in HResults, hrTypes \in HResults :
         Step("add_filters", add_filters(opt.filters, hrExt, hrTypes))
    /\ UNCHANGED sel

SetPath ==
    /\ At("set_path")
    /\ \E hrItem \in HResults, hrFolder \in HResults :
         Step("set_path", set_path(opt.starting_directory, hrItem, hrFolder))
    /\ UNCHANGED sel

SetFileName ==
    /\ At("set_file_name")
    /\ \E hr \in HResults : Step("set_file_name", set_file_name(opt.file_name, hr))
    /\ UNCHANGED sel

SetTitle ==
    /\ At("set_title")
    /\ \E hr \in HResults : Step("set_title", set_title(opt.title, hr))
    /\ UNCHANGED sel

SetOptions ==
    /\ At("SetOptions")
    /\ \E hr \in HResults : Step("SetOptions", set_options(kind, hr))
    /\ UNCHANGED sel

\* show(): blocks until the user closes the dialog; a success leaves the
\* user's selection in the dialog.
Show ==
    /\ At("show")
    /\ \E hr \in ShowHResults, s \in Selections(kind) :
         /\ Step("show", show(dialog.parent, hr))
         /\ sel' = IF check(hr) THEN s ELSE <<>>

GetResult ==
    /\ At("get_result")
    /\ \E hrRes \in HResults, hrName \in HResults :
         Step("get_result", get_result(sel, hrRes, hrName))
    /\ UNCHANGED sel

GetResults ==
    /\ At("get_results")
    /\ \E hrResults \in HResults, hrCount \in HResults, countOut \in 0..(Len(sel) + 1),
          hrItem \in [1..Len(sel) -> HResults], hrName \in [1..Len(sel) -> HResults] :
         Step("get_results", get_results(sel, hrResults, hrCount, countOut, hrItem, hrName))
    /\ UNCHANGED sel

\* impl Drop for IDialog: the scope that owns the wrapper ended.
Drop ==
    /\ phase = "drop"
    /\ dialog.owned
    /\ calls' = Append(calls, Call("Release", "dialog", "-", 0, "drop"))
    /\ dialog' = [dialog EXCEPT !.owned = FALSE, !.released = @ + 1]
    /\ phase' = "done"
    /\ UNCHANGED <<kind, opt, ip, res, rets, sel>>

Next ==
    \/ New
    \/ AddFilters
    \/ SetPath
    \/ SetFileName
    \/ SetTitle
    \/ SetOptions
    \/ Show
    \/ GetResult
    \/ GetResults
    \/ Drop

Spec == Init /\ [][Next]_vars

(***************************** properties **********************************)
CallIdx(f) == {i \in DOMAIN calls : calls[i].f = f}
NumCalls(f) == Cardinality(CallIdx(f))
RetsOf(op) == {k \in DOMAIN rets : rets[k].op = op}
BuildSucceeded == \E k \in DOMAIN rets : rets[k].op = kind /\ rets[k].ok
Ended == phase \in {"done", "panic"}
DialogRelease(c) == c.f = "Release" /\ c.obj = "dialog"

\* The native functions that answer with an HRESULT (Release answers with a
\* reference count, CoTaskMemFree with nothing).
StatusCalls ==
    {"CoCreateInstance", "SetDefaultExtension", "SetFileTypes", "SHCreateItemFromParsingName",
     "SetFolder", "SetFileName", "SetTitle", "SetOptions", "Show", "GetResult", "GetResults",
     "GetCount", "GetItemAt", "GetDisplayName"}

C2_FirstFailureReturned ==
    \A k \in DOMAIN rets : \A i \in rets[k].from..rets[k].to :
        (calls[i].f \in StatusCalls /\ calls[i].hr < 0)
            => /\ ~rets[k].ok
               /\ rets[k].val = calls[i].hr
               /\ i = rets[k].to

\* C3: every OS-owned resource an operation acquired besides the dialog has
\* been released or freed exactly once when the operation returns.
C3_ResourcesReleasedOnce == \A i \in DOMAIN res : res[i].freed = 1

\* C4: when build_pick_file, build_save_file or build_pick_files succeeds,
\* SetFolder, SetFileName and SetTitle were each called exactly once if the
\* field is present and not at all if it is absent.
C4_OneToOne ==
    (BuildSucceeded /\ kind # "build_pick_folder")
        => /\ NumCalls("SetFolder") = (IF opt.starting_directory.some THEN 1 ELSE 0)
           /\ NumCalls("SetFileName") = (IF opt.file_name.some THEN 1 ELSE 0)
           /\ NumCalls("SetTitle") = (IF opt.title.some THEN 1 ELSE 0)

\* The place of a native call in the order construct, filters, starting
\* directory, file name, title, options, show, extract, release.
Rank(c) ==
    CASE c.f = "CoCreateInstance" -> 0
      [] c.f \in {"SetDefaultExtension", "SetFileTypes"} -> 1
      [] c.f \in {"SHCreateItemFromParsingName", "SetFolder"} -> 2
      [] c.f = "SetFileName" -> 3
      [] c.f = "SetTitle" -> 4
      [] c.f = "SetOptions" -> 5
      [] c.f = "Show" -> 6
      [] DialogRelease(c) -> 8
      [] OTHER -> 7

\* C5: the native calls of an invocation happen in the order construct,
\* filters, starting directory, file name, title, SetOptions, Show, result
\* extraction, and the dialog's Release comes after every other call;
\* extraction happens only after a Show.
C5_FixedOrder ==
    /\ \A i \in DOMAIN calls : \A j \in DOMAIN calls :
         i < j => Rank(calls[i]) <= Rank(calls[j])
    /\ \A i \in DOMAIN calls : DialogRelease(calls[i]) => i = Len(calls)
    /\ \A i \in DOMAIN calls :
         Rank(calls[i]) = 7 => \E j \in 1..(i - 1) : calls[j].f = "Show"
    /\ calls # <<>> => calls[1].f = "CoCreateInstance"

C5_Witness ==
    /\ phase = "done"
    /\ kind = "build_pick_files"
    /\ \A f \in {"SetFileTypes", "SetFolder", "SetFileName", "SetTitle", "SetOptions", "Show",
                 "GetResults", "GetDisplayName"} : NumCalls(f) >= 1
    /\ DialogRelease(calls[Len(calls)])

\* The pieces of a string between its ';' separators.
RECURSIVE Pieces(_, _)
Pieces(s, cur) ==
    IF s = <<>> THEN <<cur>>
    ELSE IF Head(s) = 59 THEN <<cur>> \o Pieces(Tail(s), <<>>)
    ELSE Pieces(Tail(s), Append(cur, Head(s)))

SplitSemicolon(s) == IF s = <<>> THEN <<>> ELSE Pieces(s, <<>>)

\* What SetFileTypes must be given for the configured filters: one entry per
\* filter, in order, whose pattern is NUL-terminated and, cut at ';', is the
\* list of the filter's extensions each prefixed with "*.".
FilterSyntax(c) ==
    /\ Len(c.arg) = Len(opt.filters)
    /\ \A i \in DOMAIN c.arg :
         LET pat == c.arg[i].pszSpec
             nam == c.arg[i].pszName
             exts == opt.filters[i].extensions
         IN  /\ pat[Len(pat)] = 0
             /\ SplitSemicolon(SubSeq(pat, 1, Len(pat) - 1))
                  = [k \in DOMAIN exts |-> <<42, 46>> \o exts[k]]
             /\ nam = opt.filters[i].name \o <<0>>

FileTypesIn(k) == {i \in rets[k].from..rets[k].to : calls[i].f = "SetFileTypes"}
DefaultExtIn(k) == {i \in rets[k].from..rets[k].to : calls[i].f = "SetDefaultExtension"}

\* C6 as stated: add_filters calls SetFileTypes if and only if the filter list
\* is non-empty, with one entry per filter in order and the pattern
\* "*.e1;*.e2;...;*.en".
C6_Original ==
    \A k \in RetsOf("add_filters") :
        /\ (FileTypesIn(k) # {}) <=> (opt.filters # <<>>)
        /\ Cardinality(FileTypesIn(k)) <= 1
        /\ \A i \in FileTypesIn(k) : FilterSyntax(calls[i])

\* C6 amended: add_filters calls SetFileTypes if and only if the filter list
\* is non-empty and its SetDefaultExtension call, when it made one, did not
\* fail; the call is made once, with one entry per filter in order and the
\* pattern "*.e1;*.e2;...;*.en".
C6_Amended ==
    \A k \in RetsOf("add_filters") :
        /\ (FileTypesIn(k) # {})
             <=> (opt.filters # <<>> /\ \A i \in DefaultExtIn(k) : calls[i].hr >= 0)
        /\ Cardinality(FileTypesIn(k)) <= 1
        /\ \A i \in FileTypesIn(k) : FilterSyntax(calls[i])

C6_Witness ==
    \E k \in RetsOf("add_filters") :
        /\ rets[k].ok
        /\ FileTypesIn(k) # {}
        /\ Len(opt.filters) = 2
        /\ Len(opt.filters[2].extensions) = 2
        /\ opt.filters[1].extensions = <<>>

\* C7: show() makes exactly one Show call, with the parent window handle or
\* null, and returns Ok exactly when Show succeeded; a failing status (a
\* Cancel) comes back as Err with that status, with no retry and no other call.
C7_ShowOnce ==
    /\ NumCalls("Show") <= 1
    /\ \A k \in RetsOf("show") :
         LET c == calls[rets[k].from] IN
         /\ rets[k].from = rets[k].to
         /\ c.f = "Show"
         /\ c.arg = (IF opt.parent = "Windows" THEN "hwnd" ELSE "null")
         /\ rets[k].ok <=> c.hr >= 0
         /\ ~rets[k].ok => rets[k].val = c.hr

C7_Witness ==
    \E k \in RetsOf("show") :
        /\ ~rets[k].ok
        /\ rets[k].val = -2147023673
        /\ opt.parent = "Windows"
        /\ phase = "done"

\* The units of a buffer before its first NUL.
CutAtNul(b, p) ==
    \E n \in 0..(Len(b) - 1) :
        /\ b[n + 1] = 0
        /\ \A m \in 1..n : b[m] # 0
        /\ p = SubSeq(b, 1, n)

\* C8: get_results returns Err or the complete list: on success one path per
\* item of the OS array, in order, each cut at its first NUL; a failing
\* GetResults, GetItemAt or GetDisplayName gives Err.
C8_AllOrNothing ==
    \A k \in RetsOf("get_results") :
        /\ rets[k].ok
             => /\ Len(rets[k].val) = Len(sel)
                /\ \A i \in DOMAIN sel : CutAtNul(sel[i], rets[k].val[i])
        /\ (\E i \in rets[k].from..rets[k].to :
               calls[i].f \in {"GetResults", "GetItemAt", "GetDisplayName"} /\ calls[i].hr < 0)
             => ~rets[k].ok

\* C9: each build operation sets only its own mode: build_pick_folder calls
\* SetOptions(FOS_PICKFOLDERS) and never SetDefaultExtension, SetFileTypes or
\* SetFileName; build_pick_files calls SetOptions(FOS_ALLOWMULTISELECT);
\* build_pick_file and build_save_file never call SetOptions; nothing calls
\* SetDefaultFolder.
C9_OwnModeOnly ==
    LET mode == IF kind = "build_pick_folder" THEN "FOS_PICKFOLDERS"
                ELSE "FOS_ALLOWMULTISELECT"
    IN  /\ kind = "build_pick_folder"
             => \A i \in DOMAIN calls :
                  calls[i].f \notin {"SetDefaultExtension", "SetFileTypes", "SetFileName"}
        /\ kind \in {"build_pick_file", "build_save_file"} => NumCalls("SetOptions") = 0
        /\ \A i \in CallIdx("SetOptions") : calls[i].arg = mode
        /\ (BuildSucceeded /\ kind \in {"build_pick_folder", "build_pick_files"})
             => NumCalls("SetOptions") = 1
        /\ NumCalls("SetDefaultFolder") = 0
        /\ \A i \in CallIdx("SHCreateItemFromParsingName") :
             calls[i].hr >= 0 => (i + 1 \in DOMAIN calls /\ calls[i + 1].f = "SetFolder")

C9_Witness ==
    /\ kind = "build_pick_folder"
    /\ BuildSucceeded
    /\ opt.filters # <<>>
    /\ opt.file_name.some
    /\ opt.starting_directory.some
    /\ NumCalls("SetOptions") = 1
    /\ NumCalls("SetFolder") = 1

\* C10: add_filters calls SetDefaultExtension if and only if the filter list
\* is non-empty and its first filter has an extension; the value is the first
\* extension of the first filter; the call comes first, and when it fails
\* add_filters returns its status without calling SetFileTypes.
C10_DefaultExtension ==
    \A k \in RetsOf("add_filters") :
        /\ (DefaultExtIn(k) # {})
             <=> (opt.filters # <<>> /\ opt.filters[1].extensions # <<>>)
        /\ \A i \in DefaultExtIn(k) :
             /\ i = rets[k].from
             /\ calls[i].arg = opt.filters[1].extensions[1] \o <<0>>
             /\ \A j \in FileTypesIn(k) : i < j
             /\ calls[i].hr < 0
                  => (~rets[k].ok /\ rets[k].val = calls[i].hr /\ FileTypesIn(k) = {})

C10_Witness ==
    \E k \in RetsOf("add_filters") :
        /\ ~rets[k].ok
        /\ DefaultExtIn(k) # {}
        /\ FileTypesIn(k) = {}
        /\ Len(opt.filters) = 2

\* The other case of C10: the first filter has no extension, a later one has,
\* and add_filters succeeded without a SetDefaultExtension call.
C10_WitnessLater ==
    \E k \in RetsOf("add_filters") :
        /\ rets[k].ok
        /\ DefaultExtIn(k) = {}
        /\ Len(opt.filters) = 2
        /\ opt.filters[2].extensions # <<>>
====
